---- MODULE Spec2Model ----
(***************************************************************************)
(* A model of e-write-buffer's WriteBuffer<N> (src/src/lib.rs): a          *)
(* fixed-capacity byte array with a cursor, written through                *)
(* fmt::Write::write_str and read back through as_slice / as_str.          *)
(*                                                                         *)
(* Bytes are the integers 0..255.  A &str is a sequence of bytes that is   *)
(* well-formed UTF-8 (IsUtf8).  Sequences are 1-based, so the Rust slice   *)
(* buffer[a..b] is the positions a+1 .. b here.                            *)
(***************************************************************************)
EXTENDS Integers, Sequences, FiniteSets

VARIABLES
    N,          \* the const generic capacity of the buffer under test
    buffer,     \* self.buffer : [u8; N]
    cursor,     \* self.cursor : usize
    call,       \* the last call made on the buffer and its argument
    result,     \* what that call returned: "Ok", "Err", or "none" (no fmt::Result)
    twin,       \* a second WriteBuffer<N>, built by new() at each reset, that
                \* receives every later call the buffer receives
    twinResult, \* what the last call returned on the twin
    fed,        \* what has been passed to write_str since construction
    ref,        \* the reference text: the fragments write_str accepted since
                \* the last reset (or construction), one after the other
    steps       \* calls made so far (counted in the test specification only)

vars == <<N, buffer, cursor, call, result, twin, twinResult, fed, ref, steps>>

----------------------------------------------------------------------------
(* Bounds of the model *)

\* capacities 0 .. MaxCap are explored by Spec
MaxCap == 4

\* fragments of at most MaxFragLen bytes are passed to write_str by Spec
MaxFragLen == 4

\* the width of usize in bits, scaled down from the target's 32 or 64
UsizeBits == 6

----------------------------------------------------------------------------
(* usize *)

\* usize::MAX + 1
UsizeModulus == 2 ^ UsizeBits

\* isize::MAX, the largest size an array type or a str can have
IsizeMax == 2 ^ (UsizeBits - 1) - 1

\* a + b, had the sum been taken in a type one bit narrower than usize
usize_add_narrow(a, b) == (a + b) % (2 ^ (UsizeBits - 1))

\* a + b on usize as a release build computes it, modulo 2^w (a debug build
\* panics where this wraps)
usize_add(a, b) == (a + b) % UsizeModulus

\* a - b on usize, likewise
usize_sub(a, b) == (a - b) % UsizeModulus

----------------------------------------------------------------------------
(* Bytes and text *)

\* The bytes fragments are made of: 'a', and the two bytes of U+00E9
\* (0xC3 0xA9), a lead byte and a continuation byte.
Bytes == {97, 195, 169}

RECURSIVE SeqsUpTo(_, _)
\* every sequence over S of length at most n
SeqsUpTo(S, n) ==
    IF n = 0 THEN {<<>>}
    ELSE LET shorter == SeqsUpTo(S, n - 1)
         IN  shorter \cup {Append(s, b) : s \in {t \in shorter : Len(t) = n - 1}, b \in S}

\* a UTF-8 continuation byte, 10xxxxxx
IsCont(b) == 128 <= b /\ b <= 191

RECURSIVE IsUtf8From(_, _)
\* whether bytes i .. Len(s) of s are a sequence of well-formed UTF-8
\* encodings (Unicode table 3-7)
IsUtf8From(s, i) ==
    IF i > Len(s) THEN TRUE
    ELSE LET b == s[i]
             has(k) == i + k <= Len(s)
         IN  IF b <= 127 THEN IsUtf8From(s, i + 1)
             ELSE IF 194 <= b /\ b <= 223
                  THEN has(1) /\ IsCont(s[i + 1]) /\ IsUtf8From(s, i + 2)
             ELSE IF 224 <= b /\ b <= 239
                  THEN /\ has(2)
                       /\ IsCont(s[i + 1]) /\ IsCont(s[i + 2])
                       /\ (b = 224 => s[i + 1] >= 160)
                       /\ (b = 237 => s[i + 1] <= 159)
                       /\ IsUtf8From(s, i + 3)
             ELSE IF 240 <= b /\ b <= 244
                  THEN /\ has(3)
                       /\ IsCont(s[i + 1]) /\ IsCont(s[i + 2]) /\ IsCont(s[i + 3])
                       /\ (b = 240 => s[i + 1] >= 144)
                       /\ (b = 244 => s[i + 1] <= 143)
                       /\ IsUtf8From(s, i + 4)
             ELSE FALSE

\* the type str: a byte sequence that is well-formed UTF-8
IsUtf8(s) == IsUtf8From(s, 1)

\* the values s: &str can take in write_str, within the bounds
Fragments == {s \in SeqsUpTo(Bytes, MaxFragLen) : IsUtf8(s)}

\* the capacities of the buffers Spec constructs
Capacities == 0 .. MaxCap

----------------------------------------------------------------------------
(* The methods of WriteBuffer<N>, on a value self = [buffer, cursor] *)

\* the buffer under test as a value
Self == [buffer |-> buffer, cursor |-> cursor]

\* WriteBuffer::new() of capacity n: a zeroed array and cursor 0
new(n) == [buffer |-> [i \in 1 .. n |-> 0], cursor |-> 0]

\* as_slice, had it been written &self.buffer[..]
as_slice_whole(self) == self.buffer

\* &self.buffer[..self.cursor]
as_slice(self) == SubSeq(self.buffer, 1, self.cursor)

\* from_utf8_unchecked(self.as_slice()): the same bytes, taken as text
as_str(self) == as_slice(self)

\* reset, had it cleared the array and forgotten the cursor
reset_zeroing(self) == [self EXCEPT !.buffer = [i \in 1 .. N |-> 0]]

\* reset, had it also cleared the array
reset_clearing(self) == [buffer |-> [i \in 1 .. N |-> 0], cursor |-> 0]

\* self.cursor = 0
reset(self) == [self EXCEPT !.cursor = 0]

\* len, had it returned the array's length
len_capacity(self) == Len(self.buffer)

len(self) == self.cursor

is_empty(self) == len(self) = 0

remaining(self) == usize_sub(N, len(self))

\* is_full, had it compared against one byte left
is_full_early(self) == remaining(self) <= 1

is_full(self) == remaining(self) = 0

\* the array after bytes are copied to positions c+1, c+2, ... as far as they fit
CopyWhatFits(self, bytes) ==
    [i \in 1 .. N |->
        IF self.cursor < i /\ i <= self.cursor + Len(bytes)
        THEN bytes[i - self.cursor]
        ELSE self.buffer[i]]

\* write_str, had the check been new_cursor >= N
write_str_ge(self, s) ==
    LET new_cursor == self.cursor + Len(s)
    IN  IF new_cursor >= N
        THEN [self |-> self, result |-> "Err"]
        ELSE [self |-> [buffer |-> CopyWhatFits(self, s), cursor |-> new_cursor],
              result |-> "Ok"]

\* write_str, had the check been new_cursor > N + 1
write_str_gt_plus_one(self, s) ==
    LET new_cursor == self.cursor + Len(s)
    IN  IF new_cursor > N + 1
        THEN [self |-> self, result |-> "Err"]
        ELSE [self |-> [buffer |-> CopyWhatFits(self, s), cursor |-> new_cursor],
              result |-> "Ok"]

\* write_str, had the check been bytes.len() > N
write_str_ignores_cursor(self, s) ==
    LET new_cursor == self.cursor + Len(s)
    IN  IF Len(s) > N
        THEN [self |-> self, result |-> "Err"]
        ELSE [self |-> [buffer |-> CopyWhatFits(self, s), cursor |-> new_cursor],
              result |-> "Ok"]

\* write_str, had it copied before checking and left the cursor alone
write_str_copy_first(self, s) ==
    LET new_cursor == self.cursor + Len(s)
    IN  IF new_cursor > N
        THEN [self |-> [self EXCEPT !.buffer = CopyWhatFits(self, s)], result |-> "Err"]
        ELSE [self |-> [buffer |-> CopyWhatFits(self, s), cursor |-> new_cursor],
              result |-> "Ok"]

\* write_str, had it written the bytes that fit and reported the rest as Err
write_str_truncating(self, s) ==
    LET new_cursor == self.cursor + Len(s)
    IN  IF new_cursor > N
        THEN [self |-> [buffer |-> CopyWhatFits(self, s), cursor |-> N], result |-> "Err"]
        ELSE [self |-> [buffer |-> CopyWhatFits(self, s), cursor |-> new_cursor],
              result |-> "Ok"]

\* write_str, had it emptied the buffer on overflow
write_str_clear_on_err(self, s) ==
    LET new_cursor == self.cursor + Len(s)
    IN  IF new_cursor > N
        THEN [self |-> [self EXCEPT !.cursor = 0], result |-> "Err"]
        ELSE [self |-> [buffer |-> CopyWhatFits(self, s), cursor |-> new_cursor],
              result |-> "Ok"]

\* write_str, had it copied to buffer[..bytes.len()]
write_str_copy_at_zero(self, s) ==
    LET new_cursor == self.cursor + Len(s)
    IN  IF new_cursor > N
        THEN [self |-> self, result |-> "Err"]
        ELSE [self |-> [buffer |-> [i \in 1 .. N |->
                                       IF i <= Len(s) THEN s[i] ELSE self.buffer[i]],
                        cursor |-> new_cursor],
              result |-> "Ok"]

\* write_str, had it cleared what follows the written text
write_str_clears_tail(self, s) ==
    LET new_cursor == self.cursor + Len(s)
    IN  IF new_cursor > N
        THEN [self |-> self, result |-> "Err"]
        ELSE [self |-> [buffer |-> [i \in 1 .. N |->
                                       IF i > new_cursor THEN 0
                                       ELSE CopyWhatFits(self, s)[i]],
                        cursor |-> new_cursor],
              result |-> "Ok"]

\* write_str, had it started over at position 0 when the text does not fit
\* after the cursor but fits the array
write_str_wraps_around(self, s) ==
    LET new_cursor == self.cursor + Len(s)
    IN  IF Len(s) > N
        THEN [self |-> self, result |-> "Err"]
        ELSE IF new_cursor > N
        THEN [self |-> [buffer |-> CopyWhatFits([self EXCEPT !.cursor = 0], s),
                        cursor |-> Len(s)],
              result |-> "Ok"]
        ELSE [self |-> [buffer |-> CopyWhatFits(self, s), cursor |-> new_cursor],
              result |-> "Ok"]

\* fmt::Write::write_str: the buffer after the call and the fmt::Result
write_str(self, s) ==
    LET bytes == s
        new_cursor == usize_add(self.cursor, Len(bytes))
    IN  IF new_cursor > N
        THEN [self |-> self, result |-> "Err"]
        ELSE [self |-> [buffer |-> [i \in 1 .. N |->
                                       IF self.cursor < i /\ i <= new_cursor
                                       THEN bytes[i - self.cursor]
                                       ELSE self.buffer[i]],
                        cursor |-> new_cursor],
              result |-> "Ok"]

\* u8::to_ascii_uppercase
to_ascii_uppercase(b) == IF 97 <= b /\ b <= 122 THEN b - 32 ELSE b

\* the edit, had as_slice_mut handed out the whole array
as_str_mut_whole_array(self) ==
    [self EXCEPT !.buffer = [i \in 1 .. N |-> to_ascii_uppercase(self.buffer[i])]]

\* buffer.as_str_mut().make_ascii_uppercase(): as_str_mut hands out
\* &mut buffer[..cursor] as text, and the edit maps every byte of it
as_str_mut_make_ascii_uppercase(self) ==
    [self EXCEPT !.buffer = [i \in 1 .. N |->
                                IF i <= self.cursor
                                THEN to_ascii_uppercase(self.buffer[i])
                                ELSE self.buffer[i]]]

RECURSIVE Flatten(_)
\* what a String holds after it is given the fragments one after the other
Flatten(pieces) ==
    IF pieces = <<>> THEN <<>>
    ELSE Head(pieces) \o Flatten(Tail(pieces))

\* Display, had it been written write!(f, "{:?}", self.as_str()): the text
\* between double quotes
fmt_debug(self) == <<(<<34>>), as_str(self), (<<34>>)>>

\* <WriteBuffer as Display>::fmt: write!(f, "{}", self.as_str()) hands the
\* formatter the text as one fragment
fmt(self) == <<as_str(self)>>

\* format!("{}", buffer): the String the fragments of fmt end up in
format(self) == Flatten(fmt(self))

\* the methods that take &self and return a value
Queries == {"len", "is_empty", "remaining", "is_full", "as_slice", "as_str"}

----------------------------------------------------------------------------
(* History kept for the properties *)

\* the record of what write_str was given since construction: text is the
\* concatenation of the fragments in call order, kept while it is at most
\* N bytes and nothing but write_str was called (within); allOk is whether
\* every one of those calls returned Ok
FedInit == [within |-> TRUE, text |-> <<>>, allOk |-> TRUE]

FedOut == [within |-> FALSE, text |-> <<>>, allOk |-> FALSE]

FedWrite(f, s, r) ==
    IF f.within /\ Len(f.text) + Len(s) <= N
    THEN [within |-> TRUE, text |-> f.text \o s, allOk |-> f.allOk /\ r = "Ok"]
    ELSE FedOut

\* the reference text: empty at construction and after reset, extended by
\* each fragment write_str returned Ok for and by nothing else; an edit
\* through as_str_mut ends it (valid) until the next reset
RefInit == [valid |-> TRUE, text |-> <<>>]

RefOut == [valid |-> FALSE, text |-> <<>>]

RefWrite(f, s, r) ==
    IF f.valid /\ r = "Ok" THEN [f EXCEPT !.text = f.text \o s] ELSE f

----------------------------------------------------------------------------
(* The specification: any sequence of calls on a buffer of any capacity *)

Init ==
    /\ N \in Capacities
    /\ buffer = new(N).buffer
    /\ cursor = new(N).cursor
    /\ call = [op |-> "new", s |-> <<>>]
    /\ result = "none"
    /\ twin = new(N)
    /\ twinResult = "none"
    /\ fed = FedInit
    /\ ref = RefInit
    /\ steps = 0

\* let mut buffer: WriteBuffer<n> = WriteBuffer::new()
New(n) ==
    /\ N' = n
    /\ buffer' = new(n).buffer
    /\ cursor' = new(n).cursor
    /\ call' = [op |-> "new", s |-> <<>>]
    /\ result' = "none"
    /\ twin' = new(n)
    /\ twinResult' = "none"
    /\ fed' = FedInit
    /\ ref' = RefInit

\* buffer.write_str(s)
WriteStr(s) ==
    LET r == write_str(Self, s)
        t == write_str(twin, s)
    IN  /\ buffer' = r.self.buffer
        /\ cursor' = r.self.cursor
        /\ call' = [op |-> "write_str", s |-> s]
        /\ result' = r.result
        /\ twin' = t.self
        /\ twinResult' = t.result
        /\ fed' = FedWrite(fed, s, r.result)
        /\ ref' = RefWrite(ref, s, r.result)
        /\ N' = N

\* buffer.reset()
Reset ==
    /\ buffer' = reset(Self).buffer
    /\ cursor' = reset(Self).cursor
    /\ call' = [op |-> "reset", s |-> <<>>]
    /\ result' = "none"
    /\ twin' = new(N)
    /\ twinResult' = "none"
    /\ fed' = FedOut
    /\ ref' = RefInit
    /\ N' = N

\* buffer.as_str_mut().make_ascii_uppercase()
AsStrMut ==
    /\ buffer' = as_str_mut_make_ascii_uppercase(Self).buffer
    /\ cursor' = as_str_mut_make_ascii_uppercase(Self).cursor
    /\ call' = [op |-> "as_str_mut", s |-> <<>>]
    /\ result' = "none"
    /\ twin' = as_str_mut_make_ascii_uppercase(twin)
    /\ twinResult' = "none"
    /\ fed' = FedOut
    /\ ref' = RefOut
    /\ N' = N

\* buffer.len(), buffer.is_empty(), buffer.remaining(), buffer.is_full(),
\* buffer.as_slice(), buffer.as_str(): &self, nothing is assigned
Query(q) ==
    /\ call' = [op |-> q, s |-> <<>>]
    /\ result' = "none"
    /\ twinResult' = "none"
    /\ UNCHANGED <<N, buffer, cursor, twin, fed, ref>>

\* format!("{}", buffer): &self, nothing is assigned; out is the String
Display ==
    /\ call' = [op |-> "fmt", s |-> <<>>, out |-> format(Self)]
    /\ result' = "Ok"
    /\ twinResult' = "Ok"
    /\ UNCHANGED <<N, buffer, cursor, twin, fed, ref>>

Next ==
    \/ \E n \in Capacities : New(n) /\ UNCHANGED steps
    \/ \E s \in Fragments : WriteStr(s) /\ UNCHANGED steps
    \/ Reset /\ UNCHANGED steps
    \/ AsStrMut /\ UNCHANGED steps
    \/ \E q \in Queries : Query(q) /\ UNCHANGED steps
    \/ Display /\ UNCHANGED steps

Spec == Init /\ [][Next]_vars

----------------------------------------------------------------------------
(* The same calls at the sizes where usize arithmetic could wrap *)

\* the sizes at the ends of the range 0 .. isize::MAX, and one in the middle
EdgeSizes == {0, 1, 2 ^ (UsizeBits - 2), IsizeMax - 1, IsizeMax}

\* a fragment of n bytes
WideFragment(n) == [i \in 1 .. n |-> 97]

WrapInit ==
    /\ N \in EdgeSizes
    /\ buffer = new(N).buffer
    /\ cursor = new(N).cursor
    /\ call = [op |-> "new", s |-> <<>>]
    /\ result = "none"
    /\ twin = new(N)
    /\ twinResult = "none"
    /\ fed = FedInit
    /\ ref = RefInit
    /\ steps = 0

WrapNext ==
    \/ \E n \in EdgeSizes : New(n) /\ UNCHANGED steps
    \/ \E n \in EdgeSizes : WriteStr(WideFragment(n)) /\ UNCHANGED steps
    \/ Reset /\ UNCHANGED steps

WrapSpec == WrapInit /\ [][WrapNext]_vars

----------------------------------------------------------------------------
(* The calls of the crate's tests and example, on their capacities *)

\* WriteBuffer<20> of test_write_wrapper, test_display, test_as_str_mut
\* and examples/basic.rs
Cap20 == 20

\* WriteBuffer<10> of test_is_empty_is_full_and_overflow
Cap10 == 10

\* calls made on one run of TestSpec
MaxSteps == 4

TestCapacities == {Cap10, Cap20}

\* "Longer than "
LongerThan == <<76, 111, 110, 103, 101, 114, 32, 116, 104, 97, 110, 32>>

\* " characters sentence"
CharactersSentence ==
    <<32, 99, 104, 97, 114, 97, 99, 116, 101, 114, 115,
      32, 115, 101, 110, 116, 101, 110, 99, 101>>

\* "hello world"
HelloWorld == <<104, 101, 108, 108, 111, 32, 119, 111, 114, 108, 100>>

\* "0123456789"
Digits10 == <<48, 49, 50, 51, 52, 53, 54, 55, 56, 57>>

\* "!"
Bang == <<33>>

\* the integers the tests and the example format with "{}"
TestInts == {12, 20, 123}

RECURSIVE Decimal(_)
\* Display of an unsigned integer: its decimal digits, most significant first
Decimal(x) ==
    IF x < 10 THEN <<48 + x>>
    ELSE Append(Decimal(x \div 10), 48 + (x % 10))

\* the fragments of write!(buffer, "{}", x)
FmtInt(x) == <<Decimal(x)>>

\* the fragments of write!(buffer, "Longer than {} characters sentence", x):
\* the literal before the argument, the argument, the literal after it
FmtSentence(x) == <<LongerThan, Decimal(x), CharactersSentence>>

\* the fragments of write!(buffer, "<literal>") and write!(buffer, "{}", "<literal>")
FmtLiteral(s) == <<s>>

\* the string literals the tests write: "hello world", "0123456789", "!",
\* "1" and "2"
TestLiterals == {HelloWorld, Digits10, Bang, <<49>>, <<50>>}

\* every formatted write of the tests, as its fragments
TestWrites ==
    {FmtInt(x) : x \in TestInts}
      \cup {FmtSentence(x) : x \in TestInts}
      \cup {FmtLiteral(s) : s \in TestLiterals}

RECURSIVE write_fmt(_, _)
\* write!(buffer, ...): fmt::Write::write_fmt passes the fragments to
\* write_str one by one, in order, and returns at the first Err
write_fmt(self, pieces) ==
    IF pieces = <<>> THEN [self |-> self, result |-> "Ok"]
    ELSE LET r == write_str(self, Head(pieces))
         IN  IF r.result = "Err" THEN r
             ELSE write_fmt(r.self, Tail(pieces))

RECURSIVE FedFmt(_, _, _)
\* the history after the write_str calls of one formatted write
FedFmt(f, self, pieces) ==
    IF pieces = <<>> THEN f
    ELSE LET r == write_str(self, Head(pieces))
         IN  IF r.result = "Err" THEN FedWrite(f, Head(pieces), "Err")
             ELSE FedFmt(FedWrite(f, Head(pieces), "Ok"), r.self, Tail(pieces))

RECURSIVE RefFmt(_, _, _)
\* the reference text after the write_str calls of one formatted write
RefFmt(f, self, pieces) ==
    IF pieces = <<>> THEN f
    ELSE LET r == write_str(self, Head(pieces))
         IN  IF r.result = "Err" THEN RefWrite(f, Head(pieces), "Err")
             ELSE RefFmt(RefWrite(f, Head(pieces), "Ok"), r.self, Tail(pieces))

\* one more call, within the run's length
Tick == steps < MaxSteps /\ steps' = steps + 1

TestInit ==
    /\ N \in TestCapacities
    /\ buffer = new(N).buffer
    /\ cursor = new(N).cursor
    /\ call = [op |-> "new", s |-> <<>>]
    /\ result = "none"
    /\ twin = new(N)
    /\ twinResult = "none"
    /\ fed = FedInit
    /\ ref = RefInit
    /\ steps = 0

\* write!(buffer, ...)
WriteFmt(pieces) ==
    LET r == write_fmt(Self, pieces)
        t == write_fmt(twin, pieces)
    IN  /\ buffer' = r.self.buffer
        /\ cursor' = r.self.cursor
        /\ call' = [op |-> "write_fmt", s |-> pieces]
        /\ result' = r.result
        /\ twin' = t.self
        /\ twinResult' = t.result
        /\ fed' = FedFmt(fed, Self, pieces)
        /\ ref' = RefFmt(ref, Self, pieces)
        /\ N' = N

TestNext ==
    \/ \E n \in TestCapacities : New(n) /\ Tick
    \/ \E pieces \in TestWrites : WriteFmt(pieces) /\ Tick
    \/ Reset /\ Tick
    \/ AsStrMut /\ Tick

TestSpec == TestInit /\ [][TestNext]_vars

----------------------------------------------------------------------------
(* The claims *)

\* C1: starting from a freshly constructed buffer of any capacity N, as long
\* as the fragments passed to write_str so far total at most N bytes, every
\* one of those calls returned Ok, as_slice() and as_str() are the
\* concatenation of the fragments in call order, nothing between them, and
\* len() is the total byte length.
C1_SequentialAppendsConcatenate ==
    fed.within =>
        /\ fed.allOk
        /\ (call.op = "write_str" => result = "Ok")
        /\ as_slice(Self) = fed.text
        /\ as_str(Self) = fed.text
        /\ len(Self) = Len(fed.text)

\* C1's case: two fragments, "a" and then the two-byte U+00E9, fill a
\* buffer of capacity 3 exactly
C1_Witness ==
    /\ fed.within
    /\ N = 3
    /\ call.op = "write_str"
    /\ call.s = <<195, 169>>
    /\ fed.text = <<97, 195, 169>>

\* C2: in every reachable state, a write_str call whose fragment would make
\* cursor + len(fragment) > N returns Err and changes nothing: the cursor,
\* every byte of the array, and so as_slice(), as_str(), len() and
\* remaining() are after the call what they were before it.
C2_OverflowIsAllOrNothing ==
    [][(call'.op = "write_str" /\ cursor + Len(call'.s) > N) =>
          /\ result' = "Err"
          /\ cursor' = cursor
          /\ buffer' = buffer
          /\ as_slice(Self)' = as_slice(Self)
          /\ as_str(Self)' = as_str(Self)
          /\ len(Self)' = len(Self)
          /\ remaining(Self)' = remaining(Self)]_vars

\* C2's case: a fragment that would fit an empty buffer is refused by a
\* partly filled one
C2_Witness ==
    /\ call.op = "write_str"
    /\ result = "Err"
    /\ 0 < cursor
    /\ cursor < N
    /\ Len(call.s) <= N
    /\ cursor + Len(call.s) > N

\* C3, as claimed: on an empty buffer of capacity 20,
\* write!(buffer, "Longer than {} characters sentence", 20) fails and the
\* buffer is empty right after the failed write.
C3_SentenceLeavesBufferEmpty ==
    [][(/\ N = Cap20
        /\ is_empty(Self)
        /\ call'.op = "write_fmt"
        /\ call'.s = FmtSentence(20)) =>
          /\ result' = "Err"
          /\ len(Self)' = 0
          /\ as_slice(Self)' = <<>>]_vars

\* C3, amended: on an empty buffer of capacity 20,
\* write!(buffer, "Longer than {} characters sentence", 20) fails with Err
\* at its third fragment, and the two fragments before it stay written:
\* right after the failed write len() is 14 and as_slice() is
\* "Longer than 20"; the bytes past position 14 are untouched, and the
\* buffer is empty only after reset().
C3_SentenceKeepsWrittenFragments ==
    [][(/\ N = Cap20
        /\ is_empty(Self)
        /\ call'.op = "write_fmt"
        /\ call'.s = FmtSentence(20)) =>
          /\ result' = "Err"
          /\ len(Self)' = 14
          /\ ~is_empty(Self)'
          /\ as_slice(Self)' = LongerThan \o <<50, 48>>
          /\ \A i \in 15 .. N : buffer'[i] = buffer[i]
          /\ is_empty(reset(Self'))]_vars

\* C3's case: the sentence has just been refused by a buffer of capacity 20
\* that was empty before it
C3_Witness ==
    /\ N = Cap20
    /\ call.op = "write_fmt"
    /\ call.s = FmtSentence(20)
    /\ result = "Err"
    /\ cursor = 14

\* C4: in every state reachable by new, write_str (Ok or Err), reset and
\* as_str_mut edits, 0 <= cursor <= N, and the array has N bytes, so the
\* slices buffer[..cursor] of as_slice and as_slice_mut are in bounds.
C4_CursorWithinCapacity ==
    /\ 0 <= cursor
    /\ cursor <= N
    /\ Len(buffer) = N
    /\ cursor <= Len(buffer)

\* C4's case: a full buffer, at the upper end of the range, that has just
\* refused a write
C4_Witness ==
    /\ N > 0
    /\ cursor = N
    /\ call.op = "write_str"
    /\ result = "Err"

\* C5: in every reachable state the bytes [0, cursor) are, as a whole,
\* well-formed UTF-8 (every fragment is a &str and the as_str_mut edit keeps
\* length and encoding), also after a reset followed by shorter writes over
\* stale multi-byte data and after failed writes.
C5_ValidRegionIsUtf8 ==
    /\ cursor <= Len(buffer)
    /\ IsUtf8(as_slice(Self))

\* C5's case: after a reset a one-byte character has been written over the
\* first byte of a stale two-byte character, whose continuation byte is
\* the first byte past the cursor
C5_Witness ==
    /\ 1 <= cursor
    /\ cursor < N
    /\ buffer[cursor] <= 127
    /\ IsCont(buffer[cursor + 1])
    /\ call.op = "write_str"
    /\ result = "Ok"

\* C6: whatever the buffer held before (nothing, some text, a full array, a
\* refused write), right after reset() it reads as a freshly constructed
\* buffer of the same capacity does: len() = 0, is_empty(), remaining() = N,
\* as_slice() and as_str() empty; and every sequence of calls after the
\* reset gives on it the results and the contents it gives on a buffer that
\* new() built at the moment of the reset (the twin).
C6_ResetIsLikeNew ==
    /\ call.op = "reset" =>
          /\ len(Self) = 0
          /\ is_empty(Self)
          /\ remaining(Self) = N
          /\ as_slice(Self) = <<>>
          /\ as_str(Self) = <<>>
          /\ len(Self) = len(new(N))
          /\ as_slice(Self) = as_slice(new(N))
    /\ result = twinResult
    /\ as_slice(Self) = as_slice(twin)
    /\ as_str(Self) = as_str(twin)
    /\ len(Self) = len(twin)
    /\ is_empty(Self) = is_empty(twin)
    /\ remaining(Self) = remaining(twin)
    /\ is_full(Self) = is_full(twin)

\* C6's case: a reset left stale bytes in the array (the twin's array
\* differs), and a write after it was accepted and a later one refused
C6_Witness ==
    /\ buffer # twin.buffer
    /\ call.op = "write_str"
    /\ result = "Err"
    /\ cursor > 0

\* C7: in every reachable state is_full() is true exactly when
\* remaining() = 0, which is exactly when len() = N.
C7_FullIffNothingRemains ==
    /\ is_full(Self) <=> (remaining(Self) = 0)
    /\ is_full(Self) <=> (len(Self) = N)
    /\ is_full(Self) <=> (Len(as_slice(Self)) = Len(buffer))

\* C7's case: a write has just filled a buffer of positive capacity
C7_Witness ==
    /\ N > 0
    /\ is_full(Self)
    /\ call.op = "write_str"
    /\ result = "Ok"
    /\ Len(call.s) > 0

\* C8: a write whose fragment brings the length to exactly N returns Ok and
\* makes is_full() true (capacity 10, "0123456789"); from a full buffer
\* every write with a fragment of at least one byte returns Err and leaves
\* the buffer full and unchanged; a full buffer stops being full only
\* through reset() (or by being replaced by a new buffer).
C8_ExactFitThenOverflow ==
    [][/\ (/\ call'.op = "write_fmt"
           /\ Len(call'.s) = 1
           /\ cursor + Len(call'.s[1]) = N) =>
             /\ result' = "Ok"
             /\ is_full(Self)'
             /\ len(Self)' = N
       /\ (/\ is_full(Self)
           /\ call'.op = "write_fmt"
           /\ \E k \in 1 .. Len(call'.s) : Len(call'.s[k]) >= 1) =>
             /\ result' = "Err"
             /\ is_full(Self)'
             /\ buffer' = buffer
             /\ cursor' = cursor
       /\ (is_full(Self) /\ ~is_full(Self)') => call'.op \in {"reset", "new"}
       /\ (/\ N = Cap10
           /\ is_empty(Self)
           /\ call'.op = "write_fmt"
           /\ call'.s = FmtLiteral(Digits10)) =>
             /\ result' = "Ok"
             /\ is_full(Self)'
             /\ as_slice(Self)' = <<48, 49, 50, 51, 52, 53, 54, 55, 56, 57>>]_vars

\* C8's case: capacity 10, "0123456789" written, and "!" just refused
C8_Witness ==
    /\ N = Cap10
    /\ call.op = "write_fmt"
    /\ call.s = FmtLiteral(Bang)
    /\ result = "Err"
    /\ is_full(Self)
    /\ as_slice(Self) = Digits10

\* C9: for every fragment F and every capacity N >= len(F), write_str(F) on
\* an empty buffer (new, or just reset, whatever the array still holds)
\* returns Ok, and as_str() and as_slice() are then F byte for byte, with
\* len() = len(F).
C9_RoundTrip ==
    [][(/\ call'.op = "write_str"
        /\ is_empty(Self)
        /\ N >= Len(call'.s)) =>
          /\ result' = "Ok"
          /\ as_slice(Self)' = call'.s
          /\ as_str(Self)' = call'.s
          /\ len(Self)' = Len(call'.s)
          /\ \A i \in 1 .. Len(call'.s) : buffer'[i] = call'.s[i]]_vars

\* C9's case: a two-byte character written to a buffer that a reset had
\* emptied, over other stale bytes, with room to spare
C9_Witness ==
    /\ call.op = "write_str"
    /\ result = "Ok"
    /\ call.s = <<195, 169>>
    /\ as_str(Self) = call.s
    /\ N = 3
    /\ buffer # twin.buffer

\* C10: the edit buffer.as_str_mut().make_ascii_uppercase() changes only
\* bytes inside [0, cursor): cursor, len() and remaining() are unchanged,
\* the bytes at positions >= cursor are unchanged, as_str() is afterwards
\* the edited text ("hello world" becomes "HELLO WORLD"), and a later
\* accepted write is concatenated after the edited text.
C10_EditStaysInsideWrittenText ==
    [][/\ call'.op = "as_str_mut" =>
             /\ cursor' = cursor
             /\ len(Self)' = len(Self)
             /\ remaining(Self)' = remaining(Self)
             /\ Len(buffer') = Len(buffer)
             /\ \A i \in cursor + 1 .. N : buffer'[i] = buffer[i]
             /\ \A i \in 1 .. cursor :
                    buffer'[i] = IF buffer[i] \in 97 .. 122
                                 THEN buffer[i] - 32
                                 ELSE buffer[i]
             /\ as_str(Self) = HelloWorld =>
                    as_str(Self)' = <<72, 69, 76, 76, 79, 32, 87, 79, 82, 76, 68>>
       /\ (call'.op = "write_fmt" /\ result' = "Ok") =>
             /\ as_str(Self)' = as_str(Self) \o Flatten(call'.s)
             /\ len(Self)' = len(Self) + Len(Flatten(call'.s))]_vars

\* C10's case: "hello world" has been written to a buffer of capacity 20
\* and upper-cased in place
C10_Witness ==
    /\ N = Cap20
    /\ call.op = "as_str_mut"
    /\ as_str(Self) = <<72, 69, 76, 76, 79, 32, 87, 79, 82, 76, 68>>

\* the queries agree with the cursor
QueriesAgree ==
    /\ len(Self) = cursor
    /\ is_empty(Self) <=> (cursor = 0)
    /\ N - cursor >= 0
    /\ remaining(Self) = N - cursor
    /\ len(Self) + remaining(Self) = N
    /\ is_full(Self) <=> (cursor = N)
    /\ Len(as_slice(Self)) = cursor
    /\ \A i \in 1 .. cursor : as_slice(Self)[i] = buffer[i]
    /\ as_str(Self) = as_slice(Self)

\* C11: in every reachable state the queries agree with the cursor:
\* len() = cursor, is_empty() iff cursor = 0, remaining() = N - cursor (so
\* len() + remaining() = N and the usize subtraction does not go below 0),
\* as_slice() is exactly the bytes [0, cursor) of the array; and a call of
\* len, is_empty, remaining, is_full, as_slice or as_str leaves the cursor
\* and the array as they were.
C11_QueriesAgreeWithCursor ==
    [][/\ QueriesAgree
       /\ QueriesAgree'
       /\ call'.op \in Queries =>
             /\ cursor' = cursor
             /\ buffer' = buffer
             /\ N' = N]_vars

\* C11's case: is_full() has just been asked of a partly filled buffer that
\* holds stale bytes past the cursor
C11_Witness ==
    /\ call.op = "is_full"
    /\ 0 < cursor
    /\ cursor < N
    /\ buffer[cursor + 1] # 0

\* C12: in every reachable state, rendering the buffer with Display gives
\* exactly the text as_str() returns, the bytes [0, cursor) of the array
\* with nothing added or dropped, returns Ok, and leaves the buffer as it was.
C12_DisplayIsAsStr ==
    [][call'.op = "fmt" =>
          /\ call'.out = as_str(Self)
          /\ call'.out = SubSeq(buffer, 1, cursor)
          /\ Len(call'.out) = len(Self)
          /\ result' = "Ok"
          /\ buffer' = buffer
          /\ cursor' = cursor
          /\ as_str(Self)' = as_str(Self)]_vars

\* C12's case: a buffer holding a two-byte character, with stale bytes past
\* the cursor, has just been rendered
C12_Witness ==
    /\ call.op = "fmt"
    /\ call.out = <<195, 169>>
    /\ N >= 3
    /\ buffer[3] # 0

\* the buffer reads as the reference text
MatchesRef ==
    ref.valid =>
        /\ as_slice(Self) = ref.text
        /\ as_str(Self) = ref.text
        /\ len(Self) = Len(ref.text)

\* C13: after any interleaving of write_str calls, accepted or refused, and
\* reset calls, as_slice() is the concatenation, in call order, of exactly
\* the fragments of the calls that returned Ok since the last reset (or
\* since construction): refused writes add nothing, nothing written before
\* the last reset shows, and a write after a refused write is accepted
\* exactly when it fits after that text.
C13_MatchesReferenceText ==
    [][/\ MatchesRef
       /\ MatchesRef'
       /\ (call'.op = "write_str" /\ ref.valid) =>
             /\ result' = "Ok" <=> Len(ref.text) + Len(call'.s) <= N
             /\ result' = "Err" => ref.text' = ref.text
       /\ call'.op = "reset" => (ref.valid' /\ ref.text' = <<>>)]_vars

\* C13's case: after a reset that left other bytes in the array, a two-byte
\* character was accepted and the next write has just been refused
C13_Witness ==
    /\ ref.valid
    /\ call.op = "write_str"
    /\ result = "Err"
    /\ ref.text = <<195, 169>>
    /\ as_slice(Self) = ref.text
    /\ buffer # twin.buffer

\* C14: write_str returns Ok exactly when cursor + len(fragment) <= N and
\* Err otherwise, nothing else; a fragment of length 0 is always accepted
\* and changes nothing, also by a full buffer and by a buffer of capacity 0,
\* which is empty and full at once.
C14_OkIffFits ==
    [][/\ call'.op = "write_str" =>
             /\ result' \in {"Ok", "Err"}
             /\ result' = "Ok" <=> cursor + Len(call'.s) <= N
             /\ Len(call'.s) = 0 =>
                    /\ result' = "Ok"
                    /\ buffer' = buffer
                    /\ cursor' = cursor
       /\ N' = 0 => (is_empty(Self)' /\ is_full(Self)')]_vars

\* C14's case: the empty fragment has just been accepted by a buffer of
\* capacity 0
C14_Witness ==
    /\ N = 0
    /\ call.op = "write_str"
    /\ call.s = <<>>
    /\ result = "Ok"
    /\ is_empty(Self)
    /\ is_full(Self)

\* C15: an accepted write_str of a fragment of length L at cursor c makes
\* the bytes [c, c+L) of the array the fragment and the cursor c+L, and
\* changes nothing else: the bytes [0, c) and [c+L, N) are as before, len()
\* is L more and remaining() L less.
C15_WriteTouchesOnlyItsRange ==
    [][(call'.op = "write_str" /\ result' = "Ok") =>
          LET c == cursor
              L == Len(call'.s)
          IN  /\ cursor' = c + L
              /\ \A i \in 1 .. L : buffer'[c + i] = call'.s[i]
              /\ \A i \in 1 .. c : buffer'[i] = buffer[i]
              /\ \A i \in c + L + 1 .. N : buffer'[i] = buffer[i]
              /\ Len(buffer') = Len(buffer)
              /\ len(Self)' = len(Self) + L
              /\ remaining(Self)' = remaining(Self) - L
              /\ N' = N]_vars

\* C15's case: a fragment has just been written after earlier text and
\* before stale bytes
C15_Witness ==
    /\ call.op = "write_str"
    /\ result = "Ok"
    /\ Len(call.s) > 0
    /\ cursor > Len(call.s)
    /\ cursor < N
    /\ buffer[cursor + 1] # 0

\* C16: reset() sets the cursor to 0 and changes nothing else: every byte
\* of the array, the written ones included, is as it was; and reset can be
\* called in every state.
C16_ResetKeepsTheArray ==
    [][/\ ENABLED Reset
       /\ call'.op = "reset" =>
             /\ cursor' = 0
             /\ buffer' = buffer
             /\ N' = N]_vars

\* C16's case: a buffer that held text has just been reset and its array
\* still holds the bytes
C16_Witness ==
    /\ call.op = "reset"
    /\ cursor = 0
    /\ N >= 2
    /\ buffer[1] = 195
    /\ buffer[2] = 169

\* whether s is the first Len(s) elements of t
IsPrefix(s, t) == Len(s) <= Len(t) /\ SubSeq(t, 1, Len(s)) = s

\* C17: on one buffer, every step that is neither a reset nor an
\* as_str_mut edit leaves as_slice() a prefix of what it becomes and len()
\* no smaller; len() gets smaller only through reset(), and then it is 0.
\* (new replaces the buffer by another one and is no step of a buffer.)
C17_AppendOnly ==
    [][call'.op # "new" =>
          /\ call'.op \notin {"reset", "as_str_mut"} =>
                /\ IsPrefix(as_slice(Self), as_slice(Self)')
                /\ len(Self)' >= len(Self)
          /\ len(Self)' < len(Self) => (call'.op = "reset" /\ len(Self)' = 0)]_vars

\* C17's case: a fragment has just been appended to text already there, on
\* a buffer that was reset or refused a write before
C17_Witness ==
    /\ call.op = "write_str"
    /\ result = "Ok"
    /\ Len(call.s) > 0
    /\ cursor > Len(call.s)
    /\ ~fed.within
    /\ ref.valid

\* C18: with N and every fragment length at most isize::MAX = 2^(w-1) - 1,
\* at every write_str the cursor is at most N and the usize sum
\* cursor + len(fragment) does not wrap modulo 2^w, so a fragment longer
\* than the remaining capacity is never accepted and the slice
\* buffer[cursor..new_cursor] of an accepted write lies within the array.
C18_CapacityCheckDoesNotWrap ==
    [][call'.op = "write_str" =>
          /\ cursor <= N
          /\ cursor + Len(call'.s) < UsizeModulus
          /\ usize_add(cursor, Len(call'.s)) = cursor + Len(call'.s)
          /\ Len(call'.s) > N - cursor => (result' = "Err" /\ cursor' = cursor)
          /\ result' = "Ok" =>
                /\ cursor <= cursor'
                /\ cursor' <= N
                /\ cursor' <= Len(buffer')]_vars

\* C18's case: a full buffer of capacity isize::MAX has just refused a
\* fragment of isize::MAX bytes, the largest sum there is, 2^w - 2
C18_Witness ==
    /\ call.op = "write_str"
    /\ N = IsizeMax
    /\ cursor = IsizeMax
    /\ Len(call.s) = IsizeMax
    /\ cursor + Len(call.s) = UsizeModulus - 2
    /\ result = "Err"

====
